---------------------------- MODULE Spec2Model ----------------------------
(***************************************************************************)
(* Rejection-sampling dot placement of util.py: the iterator base class    *)
(* _iter_random_dots_base and its three variants iter_dots_on_sphere,      *)
(* iter_dots_on_plane and iter_dots_in_polygon.                            *)
(*                                                                         *)
(* Discretisation.  Angles are counted in steps of pi/2, so a latitude is  *)
(* one of -1, 0, 1 and a longitude one of -2 .. 2; on that grid the        *)
(* haversine terms are exact (sin^2 and cos take the values 0, 1/2, 1).    *)
(* Planar lengths are counted in steps of 1/Unit of the unit square.       *)
(* random.random() draws from [0, 1): it is modelled as one of the values  *)
(* k/D, 0 <= k < D, that land on the grid.                                 *)
(***************************************************************************)
EXTENDS Integers, Sequences, FiniteSets

VARIABLES
    variant,              \* which subclass was constructed
    n,                    \* self.n
    allowed_misses,       \* self.allowed_misses
    min_distance,         \* self.min_distance (sphere), in steps of pi/2
    supplied,             \* the radii argument as the caller passed it
    radii,                \* self.radii
    dot_distance_factor,  \* self.dot_distance_factor, in quarters
    border_distance,      \* self.border_distance
    dots,                 \* self.dots
    misses,               \* self.misses
    pc,                   \* "idle": no call in progress; "loop": inside __next__
    candidate,            \* the local `candidate` of the running call
    result,               \* outcome of the last call: a point, Stop, or None
    returned,             \* the points the calls have returned, in order
    warnings,             \* the numbers logged by logging.warning, in order
    draws,                \* create_random_point calls of the run (saturating)
    callRejects,          \* rejections inside the running call (saturating)
    state,                \* Running / Complete / Exhausted
    extraCalls,           \* calls made after the sequence has ended
    op,                   \* the pure function under evaluation, if any
    args,                 \* its arguments
    value,                \* its return value, once evaluated
    inst,                 \* two samplers side by side: the fields of each
    heap                  \* two samplers side by side: the list objects

vars == <<variant, n, allowed_misses, min_distance, supplied, radii,
          dot_distance_factor, border_distance, dots, misses, pc, candidate,
          result, returned, warnings, draws, callRejects, state, extraCalls,
          op, args, value, inst, heap>>

\* what a run of the single sampler leaves alone
aux == <<op, args, value, inst, heap>>

params == <<variant, n, allowed_misses, min_distance, supplied, radii,
            dot_distance_factor, border_distance>>

-----------------------------------------------------------------------------
(* Bounds of the model, and the sets the construction parameters are drawn *)
(* from.  n and allowed_misses are counts: 0 .. MaxN and 0 .. MaxMisses.   *)

MaxN == 3
MaxMisses == 2
MaxExtraCalls == 1

(* The length 1 of the unit square, in grid steps. *)
Unit == 3

Variants == {"sphere", "plane", "polygon"}
MinDistances == {-1, 0, 1, 2, 3}
RadiusValues == {1, 2}
\* dot_distance_factor is counted in quarters: 2 is 0.5, 3 is 0.75, 4 is 1
PlaneFactors == {3, 4}
PolygonFactors == {2, 4}
Borders == {0, 1, 2}

\* the two counters of the model stop one above the value they are compared
\* with: a counter at its cap stands for every larger value
DrawCap == n * allowed_misses + 1
RejectCap == allowed_misses + 1

None == <<>>
Stop == <<"StopIteration">>

Abs(x) == IF x < 0 THEN -x ELSE x
Sat(x, cap) == IF x < cap THEN x ELSE cap

-----------------------------------------------------------------------------
(* great_circle_distance, util.py 29-51. *)

\* 2 * sin(d * pi/4)^2 for an angle difference d counted in steps of pi/2
TwiceSinSqHalf(d) ==
    CASE d % 4 = 0 -> 0
      [] d % 4 = 1 -> 1
      [] d % 4 = 2 -> 2
      [] d % 4 = 3 -> 1

\* cos(phi * pi/2)
Cos(phi) ==
    CASE Abs(phi) % 4 = 0 -> 1
      [] Abs(phi) % 4 = 1 -> 0
      [] Abs(phi) % 4 = 2 -> -1
      [] Abs(phi) % 4 = 3 -> 0

\* 2 * arcsin(sqrt(a)) in steps of pi/2, for twice a = 0, 1, 2
TwiceArcsinSqrt(a2) ==
    CASE a2 = 0 -> 0
      [] a2 = 1 -> 1
      [] a2 = 2 -> 2

\* great_circle_distance with the latitudes added where they are subtracted
MutGcdPhiSum(standpoint, forepoint) ==
    LET phi_s == standpoint[1]
        lambda_s == standpoint[2]
        phi_f == forepoint[1]
        lambda_f == forepoint[2]
        d_lambda == Abs(lambda_f - lambda_s)
        d_phi == Abs(phi_s + phi_f)
        a2 == TwiceSinSqHalf(d_phi)
              + Cos(phi_s) * Cos(phi_f) * TwiceSinSqHalf(d_lambda)
    IN  TwiceArcsinSqrt(a2)

\* great_circle_distance with the longitudes added where they are subtracted
MutGcdLambdaSum(standpoint, forepoint) ==
    LET phi_s == standpoint[1]
        lambda_s == standpoint[2]
        phi_f == forepoint[1]
        lambda_f == forepoint[2]
        d_lambda == Abs(lambda_f + lambda_s)
        d_phi == Abs(phi_s - phi_f)
        a2 == TwiceSinSqHalf(d_phi)
              + Cos(phi_s) * Cos(phi_f) * TwiceSinSqHalf(d_lambda)
    IN  TwiceArcsinSqrt(a2)

great_circle_distance(standpoint, forepoint) ==
    LET phi_s == standpoint[1]
        lambda_s == standpoint[2]
        phi_f == forepoint[1]
        lambda_f == forepoint[2]
        d_lambda == Abs(lambda_f - lambda_s)
        d_phi == Abs(phi_s - phi_f)
        a2 == TwiceSinSqHalf(d_phi)
              + Cos(phi_s) * Cos(phi_f) * TwiceSinSqHalf(d_lambda)
    IN  TwiceArcsinSqrt(a2)

-----------------------------------------------------------------------------
(* cylindric_to_spheric, util.py 54-75.  The height is counted in halves   *)
(* (0, 1, 2 for 0, 0.5, 1), the angle and the result in steps of pi/2.     *)

\* arcsin(x) in steps of pi/2, for x = -1, 0, 1
Arcsin(x) ==
    CASE x = -1 -> -1
      [] x = 0 -> 0
      [] x = 1 -> 1

\* cylindric_to_spheric returning (longitude, latitude)
MutC2sSwapped(height, angle) ==
    LET longitude == angle - 2
        latitude == Arcsin(height - 1)
    IN  <<longitude, latitude>>

cylindric_to_spheric(height, angle) ==
    LET longitude == angle - 2
        \* 2 * height - 1 with the height in halves
        latitude == Arcsin(height - 1)
    IN  <<latitude, longitude>>

-----------------------------------------------------------------------------
(* sorted(radii, reverse=True), util.py 205. *)

RECURSIVE InsertDesc(_, _)
InsertDesc(x, s) ==
    IF s = <<>> THEN <<x>>
    ELSE IF x > Head(s) THEN <<x>> \o s
    ELSE <<Head(s)>> \o InsertDesc(x, Tail(s))

RECURSIVE SortedDesc(_)
SortedDesc(s) ==
    IF s = <<>> THEN <<>> ELSE InsertDesc(Head(s), SortedDesc(Tail(s)))

StoredRadii(s) == SortedDesc(s)

RECURSIVE SeqsUpTo(_, _)
SeqsUpTo(k, S) ==
    IF k = 0 THEN {<<>>}
    ELSE LET shorter == SeqsUpTo(k - 1, S)
         IN  shorter \cup {Append(s, x) : s \in {t \in shorter : Len(t) = k - 1},
                                          x \in S}


-----------------------------------------------------------------------------
(* random.random(): a value k/D of [0, 1), given by its numerator k. *)

Random(D) == 0 .. (D - 1)

(* iter_dots_on_sphere, util.py 162-172. *)

\* sphere_point_distance_valid rejecting the exact minimum distance too
MutSphereInclusive(p1, p2) ==
    great_circle_distance(p1, p2) <= min_distance

sphere_point_distance_valid(p1, p2) ==
    great_circle_distance(p1, p2) < min_distance

\* latitude = (u * 2 - 1) * pi/2 and longitude = (u * 2 - 1) * pi, in steps
\* of pi/2, for u = k/2 and u = j/2
sphere_create_random_point ==
    {<<k - 1, (j - 1) * 2>> : k \in Random(2), j \in Random(2)}

(* iter_dots_on_plane, util.py 208-221. *)

plane_point_distance_valid(p1, p2) ==
    LET x1 == p1[1]
        y1 == p1[2]
        r1 == p1[3]
        x2 == p2[1]
        y2 == p2[2]
        r2 == p2[3]
        min_distance_x4 == (r1 + r2) * dot_distance_factor
        dsq == ((x1 - x2) * (x1 - x2)) + (y1 - y2) * (y1 - y2)
    IN  \* abs(sqrt(dsq)) < min_distance, both sides times 4 and squared
        min_distance_x4 > 0 /\ 16 * dsq < min_distance_x4 * min_distance_x4

\* random.random() * (1 - 2 * border_distance) + border_distance, u = k/|D|
\* for D = Unit - 2 * border_distance (u = 0 when D = 0)
rand_in_center ==
    LET D == Unit - 2 * border_distance
    IN  IF D > 0 THEN {border_distance + k : k \in Random(D)}
        ELSE IF D = 0 THEN {border_distance}
        ELSE {border_distance - k : k \in Random(-D)}

\* NextRadius indexed by candidates drawn instead of dots accepted
MutRadiusByDraws == radii[Sat(draws + 1, Len(radii))]

NextRadius == radii[Len(dots) + 1]

plane_create_random_point ==
    {<<x, y, NextRadius>> : x \in rand_in_center, y \in rand_in_center}

(* iter_dots_in_polygon, util.py 255-264.  The polygon is the unit square; *)
(* scaling it by (0.5 - r) / 0.5 about its centre (0.5, 0.5) leaves the    *)
(* square between r and 1 - r (mirrored when the scale is negative), and   *)
(* Polygon.sample returns a point of it.                                   *)

polygon_sample(r) ==
    LET lo == IF r < Unit - r THEN r ELSE Unit - r
        hi == IF r < Unit - r THEN Unit - r ELSE r
    IN  {<<x, y>> : x \in lo .. hi, y \in lo .. hi}

polygon_create_random_point ==
    LET r == NextRadius
    IN  {<<xy[1], xy[2], r>> : xy \in polygon_sample(r)}

(* Dispatch to the subclass, util.py 107-113. *)

point_distance_valid(p1, p2) ==
    IF variant = "sphere" THEN sphere_point_distance_valid(p1, p2)
    ELSE plane_point_distance_valid(p1, p2)

create_random_point ==
    CASE variant = "sphere" -> sphere_create_random_point
      [] variant = "plane" -> plane_create_random_point
      [] variant = "polygon" -> polygon_create_random_point

-----------------------------------------------------------------------------
(* _iter_random_dots_base, util.py 100-135. *)

\* QuotaOpen that lets the loop run on at the quota
MutQuotaInclusive == Len(dots) <= n

\* QuotaOpen that stops one point short of the quota
MutQuotaShort == Len(dots) < n - 1

\* line 119: while len(self.dots) < self.n
QuotaOpen == Len(dots) < n

\* BudgetSpent one miss early
MutBudgetEarly == misses + 1 >= allowed_misses

\* BudgetSpent with > for >=: one retry too many per slot
MutBudgetOffByOne == misses > allowed_misses

\* line 120: if self.misses >= self.allowed_misses
BudgetSpent == misses >= allowed_misses

\* Branch with the budget tested before the quota
MutBudgetFirst ==
    IF BudgetSpent THEN "abort"
    ELSE IF ~QuotaOpen THEN "stop"
    ELSE "draw"

\* lines 119-125, 135: what one pass of the loop does
Branch ==
    IF ~QuotaOpen THEN "stop"
    ELSE IF BudgetSpent THEN "abort"
    ELSE "draw"

\* WarningNumber stating the quota instead of the points created
MutWarnQuota == n

\* lines 121-123: the number the warning states
WarningNumber == Len(dots)

\* MissesAfterAccept counting the accepted draw as one more miss
MutMissesCountsDraw == misses + 1

\* MissesAfterAccept without the reset
MutMissesNotReset == misses

\* line 133: self.misses = 0
MissesAfterAccept == 0

\* MissesAfterAbort with the counter cleared as on an acceptance
MutMissesCleared == MissesAfterAccept

\* lines 120-125: the abort leaves self.misses as it is
MissesAfterAbort == misses

\* DotsAfterAccept putting the candidate first
MutPrepend(c) == <<c>> \o dots

\* line 132: self.dots.append(candidate)
DotsAfterAccept(c) == Append(dots, c)

\* TooClose that leaves out the dot accepted last
MutSkipLastDot(c) ==
    \E i \in 1 .. (Len(dots) - 1) : point_distance_valid(dots[i], c)

\* line 129: any([self.point_distance_valid(dot, candidate) for dot in self.dots])
TooClose(c) == \E i \in 1 .. Len(dots) : point_distance_valid(dots[i], c)

\* MissesAfterReject without the increment
MutMissesKept == misses

\* line 130: self.misses += 1
MissesAfterReject == misses + 1

Init ==
    /\ variant \in Variants
    /\ allowed_misses \in 0 .. MaxMisses
    /\ IF variant = "sphere"
       THEN /\ n \in 0 .. MaxN
            /\ min_distance \in MinDistances
            /\ supplied = <<>>
            /\ radii = <<>>
            /\ dot_distance_factor = 4
            /\ border_distance = 0
       ELSE /\ supplied \in SeqsUpTo(MaxN, RadiusValues)
            /\ n = Len(supplied)
            /\ radii = StoredRadii(supplied)
            /\ dot_distance_factor \in
                   (IF variant = "plane" THEN PlaneFactors ELSE PolygonFactors)
            /\ border_distance \in (IF variant = "plane" THEN Borders ELSE {0})
            /\ min_distance = 0
    /\ dots = <<>>
    /\ misses = 0
    /\ pc = "idle"
    /\ candidate = None
    /\ result = None
    /\ returned = <<>>
    /\ warnings = <<>>
    /\ draws = 0
    /\ callRejects = 0
    /\ state = "Running"
    /\ extraCalls = 0
    /\ op = None
    /\ args = None
    /\ value = None
    /\ inst = None
    /\ heap = None

\* the caller invokes next() on the iterator
Call ==
    /\ pc = "idle"
    /\ state = "Running" \/ extraCalls < MaxExtraCalls
    /\ pc' = "loop"
    /\ candidate' = None
    /\ result' = None
    /\ callRejects' = 0
    /\ extraCalls' = IF state = "Running" THEN extraCalls ELSE extraCalls + 1
    /\ UNCHANGED <<aux, params, dots, misses, returned, warnings, draws, state>>

\* lines 119, 135: the loop condition fails, raise StopIteration
Complete ==
    /\ pc = "loop"
    /\ Branch = "stop"
    /\ pc' = "idle"
    /\ result' = Stop
    /\ candidate' = None
    /\ state' = "Complete"
    /\ UNCHANGED <<aux, params, dots, misses, returned, warnings, draws,
                   callRejects, extraCalls>>

\* lines 120-125: budget spent, log the warning, raise StopIteration
Exhaust ==
    /\ pc = "loop"
    /\ Branch = "abort"
    /\ warnings' = Append(warnings, WarningNumber)
    /\ misses' = MissesAfterAbort
    /\ pc' = "idle"
    /\ result' = Stop
    /\ candidate' = None
    /\ state' = "Exhausted"
    /\ UNCHANGED <<aux, params, dots, returned, draws, callRejects, extraCalls>>

\* lines 128-131: a candidate too close to some dot is a miss
Reject ==
    /\ pc = "loop"
    /\ Branch = "draw"
    /\ \E c \in create_random_point :
        /\ TooClose(c)
        /\ candidate' = c
    /\ misses' = MissesAfterReject
    /\ draws' = Sat(draws + 1, DrawCap)
    /\ callRejects' = Sat(callRejects + 1, RejectCap)
    /\ UNCHANGED <<aux, params, dots, pc, result, returned, warnings, state,
                   extraCalls>>

\* lines 128-134: a candidate clear of every dot is appended and returned
Accept ==
    /\ pc = "loop"
    /\ Branch = "draw"
    /\ \E c \in create_random_point :
        /\ ~TooClose(c)
        /\ dots' = DotsAfterAccept(c)
        /\ result' = c
        /\ returned' = Append(returned, c)
    /\ misses' = MissesAfterAccept
    /\ candidate' = None
    /\ draws' = Sat(draws + 1, DrawCap)
    /\ pc' = "idle"
    /\ UNCHANGED <<aux, params, warnings, callRejects, state, extraCalls>>

Step == Complete \/ Exhaust \/ Reject \/ Accept

Next == Call \/ Complete \/ Exhaust \/ Reject \/ Accept

Spec == Init /\ [][Next]_vars

\* the interpreter runs a started call on, and the caller keeps pulling
FairSpec == Spec /\ WF_vars(Step) /\ WF_vars(Call)

-----------------------------------------------------------------------------
(* Properties. *)

Ended == state \in {"Complete", "Exhausted"}

\* a call has run to its end and none has been started since
CallEnded == pc = "idle" /\ result # None

\* C1: in every reachable state, also after the run has ended, no two
\* distinct accepted points are too close under the active distance
\* predicate: point_distance_valid is false for every pair of the accepted
\* list, not only for neighbours in it.
C1_AllPairsValid ==
    \A i, j \in 1 .. Len(dots) :
        i # j => ~point_distance_valid(dots[i], dots[j])

\* a run that ended with three points, none of them placed trivially: the
\* predicate can reject (positive minimum distance) and has rejected
C1_Witness ==
    /\ Ended
    /\ Len(dots) = 3
    /\ draws > 3
    /\ \/ variant = "sphere" /\ min_distance >= 1
       \/ variant = "plane"

\* C2: no call blocks: a call that has been started returns (a point or the
\* end of the sequence), and a caller that keeps pulling reaches Complete or
\* Exhausted.
C2_NoCallBlocks ==
    /\ (pc = "loop") ~> (pc = "idle")
    /\ <>Ended

\* a call that used its whole retry budget on rejections and then returned
C2_Witness ==
    /\ CallEnded
    /\ state = "Exhausted"
    /\ allowed_misses = MaxMisses
    /\ callRejects = allowed_misses

\* C3: over the whole run at most n * allowed_misses candidates are drawn,
\* and within one call at most allowed_misses candidates are rejected.
C3_DrawBound ==
    /\ draws <= n * allowed_misses
    /\ callRejects <= allowed_misses

\* both bounds met with equality: every slot used its whole budget
C3_Witness ==
    /\ state = "Exhausted"
    /\ n >= 3
    /\ allowed_misses >= 1
    /\ draws = n * allowed_misses
    /\ callRejects = allowed_misses

\* C4: when the budget is spent with fewer than n points accepted the call
\* ends the sequence with StopIteration, the points returned so far stay as
\* the (shorter) result, and every warning logged states the number of
\* accepted points; a run that ends by reaching the quota logs no warning.
C4_ExhaustionIsSoftStop ==
    /\ \A k \in 1 .. Len(warnings) : warnings[k] = Len(dots)
    /\ state # "Exhausted" => warnings = <<>>
    /\ (CallEnded /\ Len(dots) < n /\ misses >= allowed_misses) =>
           /\ state = "Exhausted"
           /\ result = Stop
           /\ Len(warnings) = 1 + extraCalls
    /\ state = "Exhausted" =>
           /\ Len(dots) < n
           /\ returned = dots
           /\ C1_AllPairsValid

\* an early stop after some points were returned, with its one warning
C4_Witness ==
    /\ CallEnded
    /\ state = "Exhausted"
    /\ Len(dots) >= 1
    /\ allowed_misses >= 1
    /\ warnings = <<Len(dots)>>

\* C5: with n = 0 a call signals the end of the sequence at once: nothing is
\* drawn, nothing is accepted, the run is Complete and no warning is logged,
\* whatever allowed_misses is.
C5_EmptyQuota ==
    n = 0 =>
        /\ draws = 0
        /\ dots = <<>>
        /\ returned = <<>>
        /\ warnings = <<>>
        /\ state # "Exhausted"
        /\ CallEnded => (result = Stop /\ state = "Complete")

\* the first call on a sampler with n = 0 and a zero budget has ended
C5_Witness ==
    /\ n = 0
    /\ allowed_misses = 0
    /\ CallEnded
    /\ state = "Complete"

\* C6 as stated: with allowed_misses = 0 and n > 0 the first candidate
\* decides the run: the first call draws a candidate and then either has
\* accepted it as the one point, or has ended Exhausted with no point.
C6_FirstCandidateDecides ==
    (allowed_misses = 0 /\ n > 0 /\ CallEnded) =>
        /\ draws >= 1
        /\ \/ Len(dots) = 1 /\ result = dots[1]
           \/ state = "Exhausted" /\ dots = <<>>

\* C6 as amended: with allowed_misses = 0 and n > 0 the budget test comes
\* before the first draw, so no candidate is ever drawn, no point is ever
\* accepted and every call ends the sequence as Exhausted.
C6_ZeroBudgetDrawsNothing ==
    (allowed_misses = 0 /\ n > 0) =>
        /\ draws = 0
        /\ dots = <<>>
        /\ returned = <<>>
        /\ CallEnded => (state = "Exhausted" /\ result = Stop)

\* the first call on a sampler with a zero budget and an open quota has ended
C6_Witness ==
    /\ allowed_misses = 0
    /\ n > 0
    /\ CallEnded
    /\ state = "Exhausted"
    /\ warnings = <<0>>

\* C7: no two calls return the same point, for every construction
\* parameter the sampler accepts.
C7_NoRepeatedPoint ==
    \A i, j \in 1 .. Len(returned) :
        i # j => returned[i] # returned[j]

\* C8: once a call has signalled the end of the sequence the sampler stays
\* in that terminal state: no later step draws a candidate, returns a point
\* or changes the accepted list or the miss counter, and every later call
\* signals the end of the sequence again.
C8_Absorbing ==
    [][Ended =>
          /\ state' = state
          /\ dots' = dots
          /\ misses' = misses
          /\ draws' = draws
          /\ returned' = returned
          /\ candidate' = None
          /\ pc = "loop" => (pc' = "idle" /\ result' = Stop)]_vars

\* a further call on an exhausted sampler, holding points, has ended
C8_Witness ==
    /\ state = "Exhausted"
    /\ extraCalls >= 1
    /\ CallEnded
    /\ result = Stop
    /\ Len(dots) >= 1
    /\ Len(warnings) = 2

\* malformed parameters: a non-positive minimum distance, an empty radius
\* sequence, a negative radius
Malformed ==
    \/ variant = "sphere" /\ min_distance <= 0
    \/ variant # "sphere" /\ supplied = <<>>
    \/ variant # "sphere" /\ \E i \in 1 .. Len(supplied) : supplied[i] < 0

\* C9: a sampler built with malformed parameters fails with an error: it
\* never returns a point and never ends as a normal end of sequence.
C9_MalformedFailsFast ==
    Malformed => (returned = <<>> /\ result # Stop)

Count(s, v) == Cardinality({i \in 1 .. Len(s) : s[i] = v})

\* C10: the plane and polygon samplers take radii by acceptance order: the
\* stored radii are the supplied ones in descending order, every candidate
\* drawn while k points are accepted carries the radius at position k of
\* them (rejected or not), so the i-th accepted point has the i-th largest
\* supplied radius and accepted radii never increase.
C10_RadiiByAcceptance ==
    variant # "sphere" =>
        /\ Len(radii) = Len(supplied)
        /\ \A v \in RadiusValues : Count(radii, v) = Count(supplied, v)
        /\ \A i, j \in 1 .. Len(radii) : i < j => radii[i] >= radii[j]
        /\ candidate # None => candidate[3] = radii[Len(dots) + 1]
        /\ \A i \in 1 .. Len(dots) : dots[i][3] = radii[i]
        /\ \A i, j \in 1 .. Len(dots) : i < j => dots[i][3] >= dots[j][3]

\* after a larger and a smaller dot were accepted, a candidate for the
\* third slot was rejected twice; the caller had passed the radii unsorted
C10_Witness ==
    /\ variant = "plane"
    /\ supplied # radii
    /\ Len(dots) = 2
    /\ dots[1][3] > dots[2][3]
    /\ misses = 2
    /\ candidate # None

-----------------------------------------------------------------------------
(* The sampler's possible stages: the accepted lists some run can build.   *)

\* create_random_point with self.dots = s
CandidatesAt(s) ==
    CASE variant = "sphere" -> sphere_create_random_point
      [] variant = "plane" ->
            {<<x, y, radii[Len(s) + 1]>> : x \in rand_in_center,
                                           y \in rand_in_center}
      [] variant = "polygon" ->
            {<<xy[1], xy[2], radii[Len(s) + 1]>> :
                xy \in polygon_sample(radii[Len(s) + 1])}

\* the candidates of stage s that line 129 lets through
ValidAt(s) ==
    {c \in CandidatesAt(s) :
        \A i \in 1 .. Len(s) : ~point_distance_valid(s[i], c)}

RECURSIVE Stages(_)
Stages(k) ==
    IF k = 0 THEN {<<>>}
    ELSE UNION {{Append(s, c) : c \in ValidAt(s)} : s \in Stages(k - 1)}

\* sparse packing: every stage with fewer than n points has a valid candidate
SparseSampler ==
    \A k \in 0 .. (n - 1) : \A s \in Stages(k) : ValidAt(s) # {}

\* C11 as stated (for allowed_misses >= 1, so that candidates are drawn): a
\* sampler with sparse packing never ends Exhausted, whatever the draws.
C11_SparseNeverExhausts ==
    (state = "Exhausted" /\ allowed_misses >= 1) => ~SparseSampler

\* C11 as amended: a sampler with sparse packing ends Complete with exactly
\* n accepted points on every run in which no slot has allowed_misses
\* candidates rejected in a row.
C11_SparseCompletesWithinBudget ==
    (Ended /\ misses < allowed_misses /\ SparseSampler) =>
        (state = "Complete" /\ Len(dots) = n /\ returned = dots)

\* a sparse sampler that met rejections on its way to all three points
C11_Witness ==
    /\ state = "Complete"
    /\ n = 3
    /\ Len(dots) = 3
    /\ draws > 3
    /\ min_distance > 0 \/ variant # "sphere"
    /\ SparseSampler

-----------------------------------------------------------------------------
(* Steps of the loop, told apart by what they leave behind. *)

\* a step that drew a candidate
Drawn == draws' = draws + 1

\* a step that drew a candidate and kept it as rejected
Rejected == Drawn /\ candidate' # None

\* a step that drew a candidate and returned it
Accepted == Drawn /\ candidate' = None

\* a step that ends a call
Returns == pc = "loop" /\ pc' = "idle"

\* C15: the miss counter counts consecutive rejections exactly: a rejected
\* candidate increases misses by one and leaves the accepted list as it is,
\* an accepted candidate resets misses to zero, and no other step changes
\* misses.
C15_MissCounterExact ==
    [][/\ Rejected => (misses' = misses + 1 /\ dots' = dots)
       /\ Accepted => misses' = 0
       /\ ~Drawn => misses' = misses]_vars

\* a rejection was followed by an acceptance that cleared the counter
C15_Witness ==
    /\ misses = 0
    /\ Len(dots) >= 2
    /\ draws > Len(dots)
    /\ pc = "idle"
    /\ result = dots[Len(dots)]

\* C16: the accepted list is append-only: a call that returns a point
\* appends exactly that point at the end (the length grows by one), the
\* points accepted before stay where they are, a call that ends the sequence
\* leaves the list unchanged, and the points returned so far, in order, are
\* the accepted list.
C16_AppendOnly ==
    /\ [](returned = dots)
    /\ [][/\ (Returns /\ result' # Stop) => dots' = Append(dots, result')
          /\ (Returns /\ result' = Stop) => dots' = dots
          /\ Len(dots') >= Len(dots)
          /\ SubSeq(dots', 1, Len(dots)) = dots
          /\ Len(dots') <= Len(dots) + 1]_vars

\* a second point has just been returned and appended
C16_Witness ==
    /\ CallEnded
    /\ Len(dots) = 2
    /\ result = dots[2]
    /\ dots[1] # dots[2]
    /\ returned = dots

\* the distance of p and c is at least the minimum distance: min_distance on
\* the sphere, (r1 + r2) * dot_distance_factor for sized points
AtLeastMinimum(p, c) ==
    IF variant = "sphere"
    THEN great_circle_distance(p, c) >= min_distance
    ELSE LET minimum_x4 == (p[3] + c[3]) * dot_distance_factor
             dsq == ((p[1] - c[1]) * (p[1] - c[1]))
                    + (p[2] - c[2]) * (p[2] - c[2])
         IN  minimum_x4 <= 0 \/ 16 * dsq >= minimum_x4 * minimum_x4

\* C17: a candidate is accepted if and only if its distance to every
\* accepted point is at least the minimum distance: one strictly closer to
\* some accepted point is rejected, one at exactly the minimum distance is
\* accepted, and the first candidate of a run is always accepted.
C17_AcceptedIffFarEnough ==
    [][/\ Accepted =>
              \A i \in 1 .. Len(dots) : AtLeastMinimum(dots[i], result')
       /\ Rejected =>
              \E i \in 1 .. Len(dots) : ~AtLeastMinimum(dots[i], candidate')
       /\ (Drawn /\ dots = <<>>) => Accepted]_vars

\* two points at exactly the minimum distance are accepted, after a
\* rejection
C17_Witness ==
    /\ variant = "sphere"
    /\ min_distance = 1
    /\ draws > Len(dots)
    /\ \E i, j \in 1 .. Len(dots) :
           great_circle_distance(dots[i], dots[j]) = min_distance

\* C18: every point returned by the plane sampler has x and y inside
\* [border_distance, 1 - border_distance], for every border_distance the
\* sampler accepts.
C18_WithinBorders ==
    variant = "plane" =>
        \A i \in 1 .. Len(returned) :
            /\ border_distance <= returned[i][1]
            /\ returned[i][1] <= Unit - border_distance
            /\ border_distance <= returned[i][2]
            /\ returned[i][2] <= Unit - border_distance

\* C19: the accepted points never exceed the quota n; a run ends Complete
\* exactly when n points are accepted, and a run that ends Exhausted has
\* fewer than n points and misses >= allowed_misses.
C19_QuotaAndOutcome ==
    /\ Len(dots) <= n
    /\ Ended => (state = "Complete" <=> Len(dots) = n)
    /\ state = "Exhausted" => (Len(dots) < n /\ misses >= allowed_misses)

\* a run exhausted one point short of a quota of three
C19_Witness ==
    /\ state = "Exhausted"
    /\ n = 3
    /\ Len(dots) = 2
    /\ misses = allowed_misses
    /\ allowed_misses = 2

\* create_random_point is about to be invoked: the loop is at line 127
DrawPending == pc = "loop" /\ Branch = "draw"

\* C21: in the plane and polygon samplers the lookup radii[len(dots)] is
\* always in range: the quota is the number of radii, and whenever
\* create_random_point is invoked len(dots) < len(radii), also in calls
\* made after the quota is met or the budget is spent.
C21_RadiusLookupInRange ==
    variant # "sphere" =>
        /\ n = Len(radii)
        /\ DrawPending => Len(dots) < Len(radii)
        /\ candidate # None => Len(dots) < Len(radii)

\* the last radius is looked up once more after a rejection
C21_Witness ==
    /\ variant = "polygon"
    /\ DrawPending
    /\ Len(radii) = 3
    /\ Len(dots) = Len(radii) - 1
    /\ candidate # None
    /\ misses = 1

\* C22: for allowed_misses >= 0 the miss counter stays within 0 and
\* allowed_misses in every reachable state, it is 0 whenever a point is
\* returned to the caller, and between calls it is nonzero only once the
\* sampler is Exhausted: the misses of one slot never carry over to the next.
C22_MissesWithinBudget ==
    /\ 0 <= misses
    /\ misses <= allowed_misses
    /\ (CallEnded /\ result # Stop) => misses = 0
    /\ (pc = "idle" /\ misses # 0) => state = "Exhausted"

\* a point is returned by a call that rejected candidates before it
C22_Witness ==
    /\ CallEnded
    /\ result # Stop
    /\ callRejects >= 1
    /\ misses = 0
    /\ Len(dots) >= 2
    /\ state = "Running"

-----------------------------------------------------------------------------
(* The two pure functions, each applied to arguments of its grid. *)

Latitudes == -1 .. 1
Longitudes == -2 .. 2
SpherePoints == Latitudes \X Longitudes
Heights == 0 .. 2
Angles == 0 .. 4

\* no sampler is constructed
NoSampler ==
    /\ variant = None
    /\ n = None
    /\ allowed_misses = None
    /\ min_distance = None
    /\ supplied = None
    /\ radii = None
    /\ dot_distance_factor = None
    /\ border_distance = None
    /\ dots = None
    /\ misses = None
    /\ pc = None
    /\ candidate = None
    /\ result = None
    /\ returned = None
    /\ warnings = None
    /\ draws = None
    /\ callRejects = None
    /\ state = None
    /\ extraCalls = None

sampler == <<params, dots, misses, pc, candidate, result, returned, warnings,
             draws, callRejects, state, extraCalls>>

FnInit ==
    /\ NoSampler
    /\ inst = None
    /\ heap = None
    /\ value = None
    /\ \/ op = "great_circle_distance" /\ args \in SpherePoints \X SpherePoints
       \/ op = "cylindric_to_spheric" /\ args \in Heights \X Angles

ApplyDistance ==
    /\ op = "great_circle_distance"
    /\ value = None
    /\ value' = <<great_circle_distance(args[1], args[2])>>
    /\ UNCHANGED <<sampler, inst, heap, op, args>>

ApplyTransform ==
    /\ op = "cylindric_to_spheric"
    /\ value = None
    /\ value' = <<cylindric_to_spheric(args[1], args[2])>>
    /\ UNCHANGED <<sampler, inst, heap, op, args>>

FnNext == ApplyDistance \/ ApplyTransform

FnSpec == FnInit /\ [][FnNext]_vars

\* C12: the great-circle distance from the south pole (-pi/2, a) to the
\* north pole (pi/2, b) is pi, for all longitudes a and b, equal or not and
\* on the seam or not.
C12_PoleToPole ==
    (/\ op = "great_circle_distance"
     /\ value # None
     /\ args[1][1] = -1
     /\ args[2][1] = 1) => value[1] = 2

\* the distance of two poles whose longitudes differ, one on the seam
C12_Witness ==
    /\ op = "great_circle_distance"
    /\ value # None
    /\ args = <<(<<-1, 2>>), (<<1, -1>>)>>

\* C13: the great-circle distance from any point to itself is 0.
C13_SelfDistance ==
    (/\ op = "great_circle_distance"
     /\ value # None
     /\ args[1] = args[2]) => value[1] = 0

\* the distance of an equator point off the zero meridian to itself
C13_Witness ==
    /\ op = "great_circle_distance"
    /\ value # None
    /\ args = <<(<<0, 1>>), (<<0, 1>>)>>

-----------------------------------------------------------------------------
(* Two samplers built side by side and pulled in any order.  inst[i] holds  *)
(* the attributes of sampler i; a list attribute holds the address of a     *)
(* list object in heap.  Calls do not overlap: a call is started when no    *)
(* other call is running.                                                   *)

PairMaxMisses == 2

Samplers == {1, 2}
PairVariants == {"sphere", "plane"}
PairMinDistances == {1, 2}
PairBorders == {0, 1}
PairQuotas == {1, 2}

\* the radius lists a caller passes, unsorted ones among them
PairRadii == {<<1>>, <<2>>, <<1, 2>>, <<2, 1>>}

\* the list the caller passes as radii, to both constructors
CallerRadii == 5

\* both samplers appending to one list object
MutSharedDots(i) == CHOOSE a \in Samplers : \A b \in Samplers : a <= b

\* line 104: self.dots = [], a new list object for each sampler
DotsOwner(i) == i

\* line 205: sorted(radii, reverse=True), a new list object for each sampler
RadiiOwner(i) == 2 + i

\* the attributes __init__ sets, lines 100-105, 162-164, 201-205
Construct(i, v, quota, budget, distance, border) ==
    [variant |-> v,
     n |-> quota,
     allowed_misses |-> budget,
     min_distance |-> distance,
     border_distance |-> border,
     dot_distance_factor |-> 4,
     radii |-> RadiiOwner(i),
     dots |-> DotsOwner(i),
     misses |-> 0,
     pc |-> "idle"]

PairInit ==
    /\ NoSampler
    /\ args = None
    /\ value = None
    /\ op = 0
    /\ \E given \in PairRadii,
          v \in [Samplers -> PairVariants],
          quota \in [Samplers -> PairQuotas],
          budget \in [Samplers -> 1 .. PairMaxMisses],
          distance \in [Samplers -> PairMinDistances],
          border \in [Samplers -> PairBorders] :
        /\ \A i \in Samplers :
               IF v[i] = "sphere"
               THEN border[i] = 0
               ELSE quota[i] = Len(given) /\ distance[i] = 1
        /\ (\A i \in Samplers : v[i] = "sphere") => given = <<1>>
        /\ inst = [i \in Samplers |->
                      Construct(i, v[i], quota[i], budget[i], distance[i],
                                border[i])]
        /\ heap = [a \in 1 .. 5 |->
                      CASE a \in {DotsOwner(1), DotsOwner(2)} -> <<>>
                        [] a \in {RadiiOwner(1), RadiiOwner(2)} ->
                              IF v[a - 2] = "plane" THEN SortedDesc(given)
                              ELSE <<>>
                        [] a = CallerRadii -> given
                        [] OTHER -> <<>>]

self_dots(i) == heap[inst[i].dots]

self_radii(i) == heap[inst[i].radii]

\* lines 168-169 and 208-213 on the attributes of sampler i
self_point_distance_valid(i, p1, p2) ==
    IF inst[i].variant = "sphere"
    THEN great_circle_distance(p1, p2) < inst[i].min_distance
    ELSE LET min_distance_x4 == (p1[3] + p2[3]) * inst[i].dot_distance_factor
             dsq == ((p1[1] - p2[1]) * (p1[1] - p2[1]))
                    + (p1[2] - p2[2]) * (p1[2] - p2[2])
         IN  min_distance_x4 > 0 /\ 16 * dsq < min_distance_x4 * min_distance_x4

\* line 216 on the attributes of sampler i
self_rand_in_center(i) ==
    LET D == Unit - 2 * inst[i].border_distance
    IN  {inst[i].border_distance + k : k \in Random(D)}

\* lines 171-172 and 218-221 on the attributes of sampler i
self_create_random_point(i) ==
    IF inst[i].variant = "sphere" THEN sphere_create_random_point
    ELSE {<<x, y, self_radii(i)[Len(self_dots(i)) + 1]>> :
              x \in self_rand_in_center(i), y \in self_rand_in_center(i)}

\* lines 119-125, 135 on the attributes of sampler i
self_Branch(i) ==
    IF ~(Len(self_dots(i)) < inst[i].n) THEN "stop"
    ELSE IF inst[i].misses >= inst[i].allowed_misses THEN "abort"
    ELSE "draw"

self_TooClose(i, c) ==
    \E k \in 1 .. Len(self_dots(i)) :
        self_point_distance_valid(i, self_dots(i)[k], c)

\* next(sampler i) is called
PairCall(i) ==
    /\ \A j \in Samplers : inst[j].pc = "idle"
    /\ inst' = [inst EXCEPT ![i].pc = "loop"]
    /\ op' = i
    /\ UNCHANGED <<sampler, args, value, heap>>

\* lines 119-125, 135: raise StopIteration, at the quota or out of budget
PairStop(i) ==
    /\ inst[i].pc = "loop"
    /\ self_Branch(i) \in {"stop", "abort"}
    /\ inst' = [inst EXCEPT ![i].pc = "idle"]
    /\ op' = i
    /\ UNCHANGED <<sampler, args, value, heap>>

\* lines 128-131
PairReject(i) ==
    /\ inst[i].pc = "loop"
    /\ self_Branch(i) = "draw"
    /\ \E c \in self_create_random_point(i) : self_TooClose(i, c)
    /\ inst' = [inst EXCEPT ![i].misses = @ + 1]
    /\ op' = i
    /\ UNCHANGED <<sampler, args, value, heap>>

\* lines 128-134
PairAccept(i) ==
    /\ inst[i].pc = "loop"
    /\ self_Branch(i) = "draw"
    /\ \E c \in self_create_random_point(i) :
        /\ ~self_TooClose(i, c)
        /\ heap' = [heap EXCEPT ![inst[i].dots] = Append(@, c)]
    /\ inst' = [inst EXCEPT ![i].misses = 0, ![i].pc = "idle"]
    /\ op' = i
    /\ UNCHANGED <<sampler, args, value>>

PairNext ==
    \E i \in Samplers :
        PairCall(i) \/ PairStop(i) \/ PairReject(i) \/ PairAccept(i)

PairSpec == PairInit /\ [][PairNext]_vars

\* what the claim lists of sampler i: accepted list, miss counter, quota,
\* miss budget, radius sequence
Owned(i) ==
    <<self_dots(i), inst[i].misses, inst[i].n, inst[i].allowed_misses,
      self_radii(i)>>

\* C20: sampler instances share no mutable state: with the calls on two
\* samplers interleaved in any order, a step of a call on one sampler leaves
\* the other sampler's accepted list, miss counter, quota, miss budget and
\* radius sequence unchanged.
C20_NoSharedState ==
    [][\A i \in Samplers : op' # i => Owned(i)' = Owned(i)]_vars

\* both samplers, one of them sized, have accepted points and one was
\* pulled again after the other
C20_Witness ==
    /\ inst # None
    /\ \E i \in Samplers : inst[i].variant = "plane" /\ self_radii(i) # <<>>
    /\ \A i \in Samplers : Len(self_dots(i)) >= 1
    /\ \E i \in Samplers : Len(self_dots(i)) = 2
    /\ self_dots(1) # self_dots(2)

=============================================================================
